---- MODULE Spec2Model ----
(***************************************************************************)
(* Model of fix_escapes.py: the script reads AdminController.swift in text *)
(* mode, applies re.sub(pattern, replacement, content), writes the result  *)
(* back to the same path in text mode and prints a completion notice.      *)
(*                                                                         *)
(* A text is a sequence of one-character strings.  The file on disk is the *)
(* sequence of its bytes (one byte per character: 7-bit text), with flags  *)
(* for its existence, its permissions and whether it decodes as text.      *)
(***************************************************************************)
EXTENDS Integers, Sequences, FiniteSets, TLC

VARIABLES
    fileExists,   \* the path names a file
    fileBytes,    \* the bytes of the file on disk
    readable,     \* the process may open the file for reading
    writable,     \* the process may open the file for writing
    decodable,    \* the bytes decode in the default text encoding
    pc,           \* position of the script in its module body
    content,      \* the variable content  (line 6)
    content1,     \* the variable content1 (line 13)
    wpos,         \* offset of the write handle: bytes the script has flushed
    stdout,       \* the lines printed so far
    crashAt,      \* the statement whose unhandled error ended the process
    nReads,       \* history: how many times the file was opened for reading
    nWrites,      \* history: how many times the file was opened for writing
    readBytes,    \* history: the bytes the file held when the script read it
    runs,         \* history: how many runs of the script have started
    extLog,       \* history: the script's pc at each external write
    extBytes,     \* history: the bytes of the last external write
    orig          \* history: the file as it was when the script started

vars == << fileExists, fileBytes, readable, writable, decodable, pc, content,
           content1, wpos, stdout, crashAt, nReads, nWrites, readBytes, runs,
           extLog, extBytes, orig >>

(***************************************************************************)
(* Characters                                                              *)
(***************************************************************************)
BS == "\\"
CR == "\r"
LF == "\n"
NUL == "NUL"

Letters ==
    { "a", "b", "c", "d", "e", "f", "g", "h", "i", "j", "k", "l", "m",
      "n", "o", "p", "q", "r", "s", "t", "u", "v", "w", "x", "y", "z",
      "A", "B", "C", "D", "E", "F", "G", "H", "I", "J", "K", "L", "M",
      "N", "O", "P", "Q", "R", "S", "T", "U", "V", "W", "X", "Y", "Z" }

Digits == { "0", "1", "2", "3", "4", "5", "6", "7", "8", "9" }

\* [a-zA-Z_]
IdStart == Letters \cup { "_" }

\* [a-zA-Z0-9_.]
IdCont == Letters \cup Digits \cup { "_", "." }

(***************************************************************************)
(* The pattern, the replacement template and re.sub                        *)
(***************************************************************************)

\* s[a..b] is an expansion of [a-zA-Z_][a-zA-Z0-9_.]*
IsIdentifier(s, a, b) ==
    /\ a <= b
    /\ s[a] \in IdStart
    /\ \A k \in (a + 1)..b : s[k] \in IdCont

\* s[i..j] is an expansion of the pattern \\\(([a-zA-Z_][a-zA-Z0-9_.]*)\\\)
Occurs(s, i, j) ==
    /\ 1 <= i
    /\ i + 4 <= j
    /\ j <= Len(s)
    /\ s[i] = BS
    /\ s[i + 1] = "("
    /\ IsIdentifier(s, i + 2, j - 2)
    /\ s[j - 1] = BS
    /\ s[j] = ")"

\* The largest member of a non-empty set of numbers.
Max(S) == CHOOSE x \in S : \A y \in S : y <= x

\* A mutant of MatchEnd: the identifier may start with any character of the
\* continuation class.
MatchEndDigitStart(s, i) ==
    LET ok == { j \in (i + 4)..Len(s) :
                  /\ s[i] = BS
                  /\ s[i + 1] = "("
                  /\ \A k \in (i + 2)..(j - 2) : s[k] \in IdCont
                  /\ s[j - 1] = BS
                  /\ s[j] = ")" }
    IN  IF ok = {} THEN 0 ELSE Max(ok)

\* A mutant of MatchEnd: the continuation class lacks the period.
MatchEndNoPeriod(s, i) ==
    LET ok == { j \in i..Len(s) :
                  /\ Occurs(s, i, j)
                  /\ \A k \in (i + 2)..(j - 2) : s[k] # "." }
    IN  IF ok = {} THEN 0 ELSE Max(ok)

\* The match of the pattern anchored at position i of s: the position of its
\* last character, or 0 when the pattern does not match there.  The group is
\* greedy: of the expansions that let the rest match, the longest is taken.
MatchEnd(s, i) ==
    LET ok == { j \in i..Len(s) : Occurs(s, i, j) }
    IN  IF ok = {} THEN 0 ELSE Max(ok)

\* Group 1 of the match of s at i ending at e.
Group1(s, i, e) == SubSeq(s, i + 2, e - 2)

\* A mutant of Replacement: the template drops the parentheses.
ReplacementBare(g) == g

\* The replacement template r'(\1)' expanded with group 1 = g.
Replacement(g) == << "(" >> \o g \o << ")" >>

\* re.sub from position i on: the leftmost match is replaced and the scan
\* resumes after it; a character at which nothing matches is copied.
RECURSIVE SubFrom(_, _)
SubFrom(s, i) ==
    IF i > Len(s) THEN << >>
    ELSE LET e == MatchEnd(s, i)
         IN  IF e = 0
             THEN << s[i] >> \o SubFrom(s, i + 1)
             ELSE Replacement(Group1(s, i, e)) \o SubFrom(s, e + 1)

\* A mutant of ReSub: count = 1, only the first match is replaced.
RECURSIVE SubFirstFrom(_, _)
SubFirstFrom(s, i) ==
    IF i > Len(s) THEN << >>
    ELSE LET e == MatchEnd(s, i)
         IN  IF e = 0
             THEN << s[i] >> \o SubFirstFrom(s, i + 1)
             ELSE Replacement(Group1(s, i, e)) \o SubSeq(s, e + 1, Len(s))

ReSubFirstOnly(s) == SubFirstFrom(s, 1)

\* re.sub(pattern, replacement, s)
ReSub(s) == SubFrom(s, 1)

\* The spans << start, end >> of the matches re.sub replaces in s.
RECURSIVE SpansFrom(_, _)
SpansFrom(s, i) ==
    IF i > Len(s) THEN {}
    ELSE LET e == MatchEnd(s, i)
         IN  IF e = 0 THEN SpansFrom(s, i + 1)
             ELSE { << i, e >> } \cup SpansFrom(s, e + 1)

MatchSpans(s) == SpansFrom(s, 1)

(***************************************************************************)
(* Text-mode file input and output                                         *)
(***************************************************************************)

\* open(path, 'r') with newline = None: on input "\r\n" and a lone "\r" are
\* translated to "\n".
RECURSIVE UniversalNewlines(_)
UniversalNewlines(b) ==
    IF b = << >> THEN << >>
    ELSE IF b[1] = CR
         THEN IF Len(b) >= 2 /\ b[2] = LF
              THEN << LF >> \o UniversalNewlines(SubSeq(b, 3, Len(b)))
              ELSE << LF >> \o UniversalNewlines(Tail(b))
         ELSE << b[1] >> \o UniversalNewlines(Tail(b))

\* open(path, 'w') with newline = None: on output "\n" is translated to
\* os.linesep, which is "\n" on the system of the hard-coded path (/Users/...).
WriteNewlines(t) == t

\* A mutant of Truncate: the file is opened without truncation ('r+').
TruncateKeeps(b) == b

\* open(path, 'w') truncates the file.
Truncate(b) == << >>

\* n NUL bytes.
RECURSIVE Nuls(_)
Nuls(n) == IF n <= 0 THEN << >> ELSE << NUL >> \o Nuls(n - 1)

\* The bytes of a file holding b after chunk is written at offset pos: a gap
\* between the end of the file and the offset reads as NUL bytes, and bytes
\* beyond the chunk stay.
WriteAt(b, pos, chunk) ==
    (IF Len(b) >= pos THEN SubSeq(b, 1, pos) ELSE b \o Nuls(pos - Len(b)))
    \o chunk
    \o SubSeq(b, pos + Len(chunk) + 1, Len(b))

Notice == "Fixed escaping issues"

\* The bytes f.write(content1) hands to the file.
Out == WriteNewlines(content1)

(***************************************************************************)
(* Inputs                                                                  *)
(***************************************************************************)
RECURSIVE Flatten(_, _)
Flatten(ts, k) == IF k = 0 THEN << >> ELSE Flatten(ts, k - 1) \o ts[k]

\* The texts made of at most n pieces.
TextsOver(pieces, n) ==
    UNION { { Flatten(ts, k) : ts \in [1..k -> pieces] } : k \in 0..n }

Escaped == << BS, "(", "a", BS, ")" >>
EscapedDotted == << BS, "(", "a", ".", "1", BS, ")" >>

MaxEnvPieces == 3
EnvPieces == { << BS >>, << "a" >>, << CR >>, << LF >>, Escaped }

MaxFixPieces == 3
FixPieces ==
    { << BS >>, << "(" >>, << ")" >>, << "a" >>, << "1" >>, << "." >>,
      << " " >>, << BS, "(" >>, << BS, ")" >>, Escaped, EscapedDotted,
      << BS, "(", "a", ")" >>, << "(", "a", BS, ")" >> }

MaxExt == 1
ExtTexts == { << "e" >>, << "e" >> \o Escaped }

MaxRuns == 2

(***************************************************************************)
(* The script                                                              *)
(***************************************************************************)
InitScript ==
    /\ pc = "start"
    /\ content = << >>
    /\ content1 = << >>
    /\ wpos = 0
    /\ stdout = << >>
    /\ crashAt = "none"
    /\ nReads = 0
    /\ nWrites = 0
    /\ readBytes = << >>
    /\ runs = 1
    /\ extLog = << >>
    /\ extBytes = << >>
    /\ orig = [ exists |-> fileExists, bytes |-> fileBytes ]

\* The script is started on any file, or on a path that names none, while
\* other processes may write the file.
Init ==
    /\ fileExists \in BOOLEAN
    /\ fileBytes \in (IF fileExists THEN TextsOver(EnvPieces, MaxEnvPieces)
                                    ELSE { << >> })
    /\ readable \in (IF fileExists THEN BOOLEAN ELSE { FALSE })
    /\ writable \in (IF fileExists THEN BOOLEAN ELSE { FALSE })
    /\ decodable \in (IF fileExists THEN BOOLEAN ELSE { FALSE })
    /\ InitScript

\* The script is started on a readable, writable text file that no other
\* process touches, and is run again after it has finished.
InitFix ==
    /\ fileExists = TRUE
    /\ fileBytes \in TextsOver(FixPieces, MaxFixPieces)
    /\ readable = TRUE
    /\ writable = TRUE
    /\ decodable = TRUE
    /\ InitScript

\* A mutant of Read: a failed read is caught and taken for an empty file.
ReadSwallowsError ==
    /\ pc = "start"
    /\ nReads' = nReads + 1
    /\ content' = (IF fileExists /\ readable /\ decodable
                   THEN UniversalNewlines(fileBytes) ELSE << >>)
    /\ readBytes' = fileBytes
    /\ pc' = "read"
    /\ UNCHANGED << fileExists, fileBytes, readable, writable, decodable,
                    content1, wpos, stdout, crashAt, nWrites, runs, extLog,
                    extBytes, orig >>

\* with open(path, 'r') as f: content = f.read()
Read ==
    /\ pc = "start"
    /\ nReads' = nReads + 1
    /\ IF fileExists /\ readable /\ decodable
       THEN /\ content' = UniversalNewlines(fileBytes)
            /\ readBytes' = fileBytes
            /\ pc' = "read"
            /\ UNCHANGED crashAt
       ELSE /\ pc' = "crashed"
            /\ crashAt' = "read"
            /\ UNCHANGED << content, readBytes >>
    /\ UNCHANGED << fileExists, fileBytes, readable, writable, decodable,
                    content1, wpos, stdout, nWrites, runs, extLog, extBytes, orig >>

\* content1 = re.sub(pattern, replacement, content)
Substitute ==
    /\ pc = "read"
    /\ content1' = ReSub(content)
    /\ pc' = "subbed"
    /\ UNCHANGED << fileExists, fileBytes, readable, writable, decodable,
                    content, wpos, stdout, crashAt, nReads, nWrites,
                    readBytes, runs, extLog, extBytes, orig >>

\* A mutant of OpenWrite: the file is written only if it still holds what was
\* read.
OpenWriteChecksStale ==
    /\ pc = "subbed"
    /\ IF (writable \/ ~fileExists) /\ fileBytes = readBytes
       THEN /\ fileExists' = TRUE
            /\ fileBytes' = << >>
            /\ wpos' = 0
            /\ nWrites' = nWrites + 1
            /\ pc' = "opened"
            /\ UNCHANGED crashAt
       ELSE /\ pc' = "crashed"
            /\ crashAt' = "open_w"
            /\ UNCHANGED << fileExists, fileBytes, wpos, nWrites >>
    /\ UNCHANGED << readable, writable, decodable, content, content1, stdout,
                    nReads, readBytes, runs, extLog, extBytes, orig >>

\* with open(path, 'w') as f: an existing file is truncated and a missing one
\* is created empty, or the open fails.
OpenWrite ==
    /\ pc = "subbed"
    /\ IF writable \/ ~fileExists
       THEN /\ fileExists' = TRUE
            /\ fileBytes' = Truncate(fileBytes)
            /\ wpos' = 0
            /\ nWrites' = nWrites + 1
            /\ pc' = "opened"
            /\ UNCHANGED crashAt
       ELSE /\ pc' = "crashed"
            /\ crashAt' = "open_w"
            /\ UNCHANGED << fileExists, fileBytes, wpos, nWrites >>
    /\ UNCHANGED << readable, writable, decodable, content, content1, stdout,
                    nReads, readBytes, runs, extLog, extBytes, orig >>

\* The next n bytes of f.write(content1) reach the file.
WriteBytes(n) ==
    /\ fileBytes' = WriteAt(fileBytes, wpos, SubSeq(Out, wpos + 1, wpos + n))
    /\ wpos' = wpos + n
    /\ UNCHANGED << fileExists, readable, writable, decodable, pc, content,
                    content1, stdout, crashAt, nReads, nWrites, readBytes,
                    runs, extLog, extBytes, orig >>

\* f.write(content1), flushed to the file in pieces of any size.
WriteChunk ==
    /\ pc = "opened"
    /\ \E n \in 1..(Len(Out) - wpos) : WriteBytes(n)

\* f.write(content1), flushed to the file in one piece.
WriteWhole ==
    /\ pc = "opened"
    /\ wpos = 0
    /\ Len(Out) > 0
    /\ WriteBytes(Len(Out))

\* The with block of the write ends: everything is flushed, the file closed.
CloseWrite ==
    /\ pc = "opened"
    /\ wpos = Len(Out)
    /\ pc' = "written"
    /\ UNCHANGED << fileExists, fileBytes, readable, writable, decodable,
                    content, content1, wpos, stdout, crashAt, nReads, nWrites,
                    readBytes, runs, extLog, extBytes, orig >>

\* An error while the file is open for writing (the disk is full, the device
\* fails, the process is killed): unhandled, it ends the process.
WriteFault ==
    /\ pc = "opened"
    /\ pc' = "crashed"
    /\ crashAt' = "write"
    /\ UNCHANGED << fileExists, fileBytes, readable, writable, decodable,
                    content, content1, wpos, stdout, nReads, nWrites,
                    readBytes, runs, extLog, extBytes, orig >>

\* A mutant of PrintNotice: the notice is printed only if something changed.
PrintNoticeIfChanged ==
    /\ pc = "written"
    /\ stdout' = (IF content1 # content THEN Append(stdout, Notice)
                                        ELSE stdout)
    /\ pc' = "done"
    /\ UNCHANGED << fileExists, fileBytes, readable, writable, decodable,
                    content, content1, wpos, crashAt, nReads, nWrites,
                    readBytes, runs, extLog, extBytes, orig >>

\* print("Fixed escaping issues")
PrintNotice ==
    /\ pc = "written"
    /\ stdout' = Append(stdout, Notice)
    /\ pc' = "done"
    /\ UNCHANGED << fileExists, fileBytes, readable, writable, decodable,
                    content, content1, wpos, crashAt, nReads, nWrites,
                    readBytes, runs, extLog, extBytes, orig >>

\* The script is run again on the file it has fixed: a new process.
Rerun ==
    /\ pc = "done"
    /\ runs < MaxRuns
    /\ runs' = runs + 1
    /\ pc' = "start"
    /\ content' = << >>
    /\ content1' = << >>
    /\ wpos' = 0
    /\ stdout' = << >>
    /\ nReads' = 0
    /\ nWrites' = 0
    /\ UNCHANGED << fileExists, fileBytes, readable, writable, decodable,
                    crashAt, readBytes, extLog, extBytes, orig >>

\* Another process replaces the content of the file; nothing stops it.
ExternalWrite ==
    /\ fileExists
    /\ Len(extLog) < MaxExt
    /\ \E b \in ExtTexts :
          /\ fileBytes' = b
          /\ extBytes' = b
    /\ extLog' = Append(extLog, pc)
    /\ UNCHANGED << fileExists, readable, writable, decodable, pc, content,
                    content1, wpos, stdout, crashAt, nReads, nWrites,
                    readBytes, runs, orig >>

Next ==
    \/ Read
    \/ Substitute
    \/ OpenWrite
    \/ WriteChunk
    \/ CloseWrite
    \/ WriteFault
    \/ PrintNotice
    \/ ExternalWrite

Spec == Init /\ [][Next]_vars

NextFix ==
    \/ Read
    \/ Substitute
    \/ OpenWrite
    \/ WriteWhole
    \/ CloseWrite
    \/ PrintNotice
    \/ Rerun

SpecFix == InitFix /\ [][NextFix]_vars

(***************************************************************************)
(* Properties                                                              *)
(***************************************************************************)

\* The run has written the file and closed it.
WriteCompleted == pc \in { "written", "done" }

\* content1 holds the result of the substitution.
Substituted == pc \in { "subbed", "opened", "written", "done" }

\* Position k of s lies inside a match that re.sub replaces.
InMatch(s, k) == \E sp \in MatchSpans(s) : sp[1] <= k /\ k <= sp[2]

\* The number of matches of s that end before position k.
MatchesBefore(s, k) == Cardinality({ sp \in MatchSpans(s) : sp[2] < k })

\* The number of matches re.sub replaces in s.
NMatches(s) == Cardinality(MatchSpans(s))

\* Some part of s is an expansion of the pattern.
HasOccurrence(s) == \E i \in 1..Len(s) : \E j \in i..Len(s) : Occurs(s, i, j)

\* The number of backslashes of s.
RECURSIVE Backslashes(_)
Backslashes(s) ==
    IF s = << >> THEN 0
    ELSE (IF s[1] = BS THEN 1 ELSE 0) + Backslashes(Tail(s))

\* The characters of s other than backslashes, in order.
RECURSIVE NonBackslashes(_)
NonBackslashes(s) ==
    IF s = << >> THEN << >>
    ELSE (IF s[1] = BS THEN << >> ELSE << s[1] >>) \o NonBackslashes(Tail(s))

\* C1: after a run that completes without fault, and with no other writer,
\* the file holds the bytes it held when it was read with every occurrence of
\* the pattern replaced by '(' identifier ')'.
C1_FileHoldsFixOfFile ==
    (WriteCompleted /\ extLog = << >>) => fileBytes = ReSub(readBytes)

\* C2: after the read-substitute-write cycle every byte of the file that is
\* not part of a match is the byte that was read, at the place the matches
\* before it leave it: the file is shorter by two bytes for each match and
\* nothing else moved or changed, line endings included.
C2_OtherBytesPreserved ==
    (WriteCompleted /\ extLog = << >>) =>
        /\ Len(fileBytes) = Len(readBytes) - 2 * NMatches(readBytes)
        /\ \A k \in 1..Len(readBytes) :
              ~InMatch(readBytes, k) =>
                  fileBytes[k - 2 * MatchesBefore(readBytes, k)] = readBytes[k]

\* C3: the substitution applied to its own result changes nothing, and the
\* second run of the script writes back the file exactly as the first run
\* left it.
C3_Idempotent ==
    /\ Substituted => ReSub(content1) = content1
    /\ (runs >= 2 /\ WriteCompleted) =>
          /\ fileBytes = readBytes
          /\ readBytes = ReSub(UniversalNewlines(orig.bytes))

\* The second run has finished on a file whose first run replaced something.
C3_Witness ==
    /\ runs = 2
    /\ pc = "done"
    /\ NMatches(orig.bytes) >= 1
    /\ fileBytes # orig.bytes

\* s[i..j] is backslash, '(', identifier, ')' with no backslash before ')'.
UnbalancedOpen(s, i, j) ==
    /\ i + 3 <= j
    /\ s[i] = BS
    /\ s[i + 1] = "("
    /\ IsIdentifier(s, i + 2, j - 1)
    /\ s[j] = ")"

\* s[i..j] is '(', identifier, backslash, ')' with no backslash before '('.
UnbalancedClose(s, i, j) ==
    /\ i + 3 <= j
    /\ (i = 1 \/ s[i - 1] # BS)
    /\ s[i] = "("
    /\ IsIdentifier(s, i + 1, j - 2)
    /\ s[j - 1] = BS
    /\ s[j] = ")"

\* s[i..j] is an escaped pair around characters of the continuation class
\* that begin with a digit.
DigitFirst(s, i, j) ==
    /\ i + 4 <= j
    /\ s[i] = BS
    /\ s[i + 1] = "("
    /\ s[i + 2] \in Digits
    /\ \A k \in (i + 3)..(j - 2) : s[k] \in IdCont
    /\ s[j - 1] = BS
    /\ s[j] = ")"

\* s[i..j] is an escaped pair around nothing.
EmptyPair(s, i, j) ==
    /\ j = i + 3
    /\ s[i] = BS
    /\ s[i + 1] = "("
    /\ s[i + 2] = BS
    /\ s[j] = ")"

\* s[i..j] is two consecutive backslashes.
TwoBackslashes(s, i, j) ==
    /\ j = i + 1
    /\ s[i] = BS
    /\ s[j] = BS

\* s[i..j] is a backslash and a character other than '(' and ')'.
BackslashOther(s, i, j) ==
    /\ j = i + 1
    /\ s[i] = BS
    /\ s[j] \notin { "(", ")" }

\* t holds s[i..j] at the place the matches of s before i leave it.
KeptIn(s, t, i, j) ==
    LET i2 == i - 2 * MatchesBefore(s, i)
    IN  /\ i2 + (j - i) <= Len(t)
        /\ SubSeq(t, i2, i2 + (j - i)) = SubSeq(s, i, j)

\* The second backslash of the pair s[i..i+1] opens a match.
OpensMatch(s, i) == MatchEnd(s, i + 1) # 0

C9_NoOccurrenceLeft ==
    /\ Substituted => ~HasOccurrence(content1)
    /\ WriteCompleted => ~HasOccurrence(fileBytes)

\* An escaped pair wrapped in another escaped pair has been substituted.
C9_Witness ==
    /\ pc = "done"
    /\ content = << BS, "(" >> \o Escaped \o << BS, ")" >>
    /\ fileBytes = << BS, "(", "(", "a", ")", BS, ")" >>

\* C10: with k matches replaced, the result is 2k characters shorter, has 2k
\* backslashes fewer, and has the same characters other than backslashes in
\* the same order.
C10_OnlyBackslashesDeleted ==
    Substituted =>
        /\ Len(content1) = Len(content) - 2 * NMatches(content)
        /\ Backslashes(content1) = Backslashes(content) - 2 * NMatches(content)
        /\ NonBackslashes(content1) = NonBackslashes(content)

\* A text with several matches and a backslash outside them was substituted.
C10_Witness ==
    /\ pc = "subbed"
    /\ NMatches(content) >= 2
    /\ Backslashes(content1) >= 1

\* The read of this run cannot succeed on the file as it was at the start.
ReadMustFail == ~(orig.exists /\ readable /\ decodable)

\* C5: if the read fails, the process ends there with an unhandled error:
\* the file is never opened for writing, a missing file is not created, the
\* bytes of the file are untouched by the script, no result is computed or
\* written and nothing is printed.
C5_ReadFailureLeavesFile ==
    (ReadMustFail /\ pc # "start") =>
        /\ pc = "crashed"
        /\ crashAt = "read"
        /\ nWrites = 0
        /\ fileExists = orig.exists
        /\ (extLog = << >> => fileBytes = orig.bytes)
        /\ (extLog # << >> => fileBytes = extBytes)
        /\ content1 = << >>
        /\ stdout = << >>

\* The read failed on a file that exists and holds a match.
C5_Witness ==
    /\ crashAt = "read"
    /\ fileExists
    /\ NMatches(fileBytes) >= 1
    /\ extLog = << >>

\* C6: an error after the file is opened for writing and before all of the
\* result has reached it ends the process with the file holding the part of
\* the result written so far, which is neither what the file held nor the
\* result; a failure to open the file for writing leaves the file as it was.
C6_WriteNotAtomic ==
    /\ (crashAt = "write" /\ wpos < Len(Out) /\ extLog = << >>) =>
          /\ pc = "crashed"
          /\ fileBytes = SubSeq(Out, 1, wpos)
          /\ fileBytes # orig.bytes
          /\ fileBytes # Out
          /\ stdout = << >>
    /\ (crashAt = "open_w" /\ extLog = << >>) =>
          /\ pc = "crashed"
          /\ fileBytes = orig.bytes
          /\ stdout = << >>

\* The write failed with a part of the result, and not all of it, in the file.
C6_Witness ==
    /\ crashAt = "write"
    /\ extLog = << >>
    /\ 0 < wpos
    /\ wpos < Len(Out)
    /\ NMatches(content) >= 1

\* C7: the file is read once and written at most once, the write begins only
\* after the read has ended and the substitution is done, the notice is
\* printed at most once and only after the write has completed, and every
\* run that completes the write prints it.
C7_LinearControlFlow ==
    /\ nReads <= 1
    /\ nWrites <= 1
    /\ Len(stdout) <= 1
    /\ pc # "start" => nReads = 1
    /\ nWrites = 1 =>
          /\ nReads = 1
          /\ pc \in { "opened", "written", "done", "crashed" }
          /\ crashAt \in { "none", "write" }
          /\ content1 = ReSub(content)
    /\ pc \in { "read", "subbed" } => nWrites = 0
    /\ stdout # << >> =>
          /\ stdout = << Notice >>
          /\ pc = "done"
          /\ nWrites = 1
          /\ wpos = Len(Out)
    /\ pc = "written" => ENABLED PrintNotice
    /\ pc = "done" => stdout = << Notice >>

\* A run on a file without a match has rewritten it as it was and printed
\* the notice.
C7_Witness ==
    /\ pc = "done"
    /\ extLog = << >>
    /\ NMatches(content) = 0
    /\ content # << >>
    /\ fileBytes = orig.bytes
    /\ stdout = << Notice >>

\* Every external write landed after the script's read and before the script
\* opened the file for writing.
ExternalBetween ==
    /\ extLog # << >>
    /\ \A k \in 1..Len(extLog) : extLog[k] \in { "read", "subbed" }

\* The last external write landed after the script had written the file.
ExternalLast ==
    /\ extLog # << >>
    /\ extLog[Len(extLog)] \in { "written", "done" }

\* C8: an external write between the script's read and its write is not
\* detected: the script goes on to open the file for writing, and once its
\* write has completed the file holds the substitution of what the script
\* read, and the notice is printed; an external write after the script's
\* write stays in the file.
C8_LastWriterWins ==
    /\ (ExternalBetween /\ pc = "crashed") =>
          (crashAt = "write" \/ (crashAt = "open_w" /\ ~writable))
    /\ (ExternalBetween /\ WriteCompleted) =>
          /\ fileBytes = WriteNewlines(ReSub(content))
          /\ content = UniversalNewlines(readBytes)
    /\ (ExternalBetween /\ pc = "done") => stdout = << Notice >>
    /\ ExternalLast => fileBytes = extBytes

\* The script finished after an external write that its own write replaced.
C8_Witness ==
    /\ pc = "done"
    /\ ExternalBetween
    /\ fileBytes # extBytes
    /\ extBytes # readBytes
    /\ stdout = << Notice >>

====
